---------------------------- MODULE Spec2Model ----------------------------
(***************************************************************************)
(* Model of assets/generate-images.py: the panel line builders, the        *)
(* rasterizer make_image_fixed_width and the __main__ driver.              *)
(*                                                                         *)
(* A text is a sequence of Unicode code points (Python's len counts code   *)
(* points); a colour is an RGB triple; a line is a pair <<text, colours>>  *)
(* as the builders return it.                                              *)
(***************************************************************************)
EXTENDS Integers, Sequences, FiniteSets, TLC

\* ----------------------------------------------------------------- bounds
\* number of times the script is invoked one after the other
MaxRuns == 2
\* longest text handed to center_line / logo_line on their own
MaxTextLen == 98
\* largest font_size, line count, line length and glyph width tried on the
\* dimension arithmetic on its own
MaxFontSize == 30
MaxLines == 3
MaxChars == 3
MaxGlyph == 3

\* -------------------------------------------------------------- constants
BG == <<13, 17, 23>>
CYAN == <<0, 255, 255>>
YELLOW == <<255, 255, 0>>
GREEN == <<0, 255, 0>>
WHITE == <<255, 255, 255>>
RED == <<255, 0, 0>>
MAGENTA == <<255, 0, 255>>

SCALE == 2
BASE_FONT_SIZE == 24

\* box-drawing characters, by code point
B_TL == 9556
B_TR == 9559
B_BL == 9562
B_BR == 9565
B_V == 9553
B_H == 9552
B_L == 9568
B_R == 9571
B_T == 9572
B_B == 9575
B_X == 9578
S_V == 9474
SP == 32

\* Python's None and "" are both false in `if mid:`; both are the empty text
None == <<>>

\* s * n and [c] * n: n copies, none when n <= 0
Repeat(c, n) == [i \in 1..n |-> c]

\* ------------------------------------------------------------- build_line
RECURSIVE build_line_loop(_, _, _, _)
build_line_loop(segments, i, full_text, color_map) ==
    IF i > Len(segments) THEN <<full_text, color_map>>
    ELSE build_line_loop(segments, i + 1,
                         full_text \o segments[i][1],
                         color_map \o Repeat(segments[i][2], Len(segments[i][1])))

build_line(segments) == build_line_loop(segments, 1, <<>>, <<>>)

\* --------------------------------------------------------------- gen_logo
\* the loop body of gen_logo: build the row, then colour its last 8
\* characters yellow (range(len - 8, len); negative indices wrap, so a row
\* shorter than 8 is yellow throughout)
logo_row(segs) ==
    LET bl == build_line(segs)
        text == bl[1]
        colors == bl[2]
    IN  <<text, [i \in 1..Len(colors) |->
                    IF i > Len(colors) - 8 THEN YELLOW ELSE colors[i]]>>

\* ---------------------------------------------------------- gen_dashboard
dashboard_W == 98

dashboard_full_border(left, mid, right) ==
    LET line == left \o Repeat(B_H, dashboard_W - 2) \o right
    IN  <<line, Repeat(CYAN, Len(line))>>

dashboard_logo_line(logo_text) ==
    LET content_w == dashboard_W - 2
        logo_len == Len(logo_text)
        left_pad == (content_w - logo_len) \div 2
        right_pad == content_w - logo_len - left_pad
        full == <<B_V>> \o Repeat(SP, left_pad) \o logo_text
                        \o Repeat(SP, right_pad) \o <<B_V>>
        colors == <<CYAN>> \o Repeat(CYAN, left_pad)
                           \o Repeat(CYAN, logo_len - 8)
                           \o Repeat(YELLOW, 8)
                           \o Repeat(CYAN, right_pad)
                           \o <<CYAN>>
    IN  <<full, colors>>

dashboard_center_line(text_segments) ==
    LET border == <<B_V>>
        bl == build_line(text_segments)
        text == bl[1]
        colors == bl[2]
        content_width == dashboard_W - 2
        text_len == Len(text)
        left_pad == (content_width - text_len) \div 2
        right_pad == content_width - text_len - left_pad
        full == border \o Repeat(SP, left_pad) \o text
                       \o Repeat(SP, right_pad) \o border
        full_colors == <<CYAN>> \o Repeat(CYAN, left_pad) \o colors
                                \o Repeat(CYAN, right_pad) \o <<CYAN>>
    IN  <<full, full_colors>>

dashboard_menu_line(left_item, right_item) ==
    LET l == build_line(left_item)
        r == build_line(right_item)
        left_text == l[1]
        left_colors == l[2]
        right_text == r[1]
        right_colors == r[2]
        col_width == (dashboard_W - 2) \div 2
        left_padded == left_text \o Repeat(SP, col_width - Len(left_text))
        right_padded == right_text \o Repeat(SP, col_width - Len(right_text))
        full == <<B_V>> \o left_padded \o right_padded \o <<B_V>>
        full_colors == <<CYAN>> \o left_colors
                                \o Repeat(CYAN, col_width - Len(left_text))
                                \o right_colors
                                \o Repeat(CYAN, col_width - Len(right_text))
                                \o <<CYAN>>
    IN  <<full, full_colors>>

\* --------------------------------------------------------------- gen_algo
algo_W == 98
algo_LEFT_W == 48
algo_RIGHT_W == 47

algo_full_border(left, right, mid) ==
    LET line == IF mid # None
                THEN left \o Repeat(B_H, algo_LEFT_W) \o mid
                          \o Repeat(B_H, algo_RIGHT_W) \o right
                ELSE left \o Repeat(B_H, algo_W - 2) \o right
    IN  <<line, Repeat(CYAN, Len(line))>>

\* algo center_line with the odd space given to the left
algo_center_line_left(text_segments) ==
    LET bl == build_line(text_segments)
        text == bl[1]
        colors == bl[2]
        content_width == algo_W - 2
        text_len == Len(text)
        right_pad == (content_width - text_len) \div 2
        left_pad == content_width - text_len - right_pad
        full == <<B_V>> \o Repeat(SP, left_pad) \o text
                        \o Repeat(SP, right_pad) \o <<B_V>>
        full_colors == <<CYAN>> \o Repeat(CYAN, left_pad) \o colors
                                \o Repeat(CYAN, right_pad) \o <<CYAN>>
    IN  <<full, full_colors>>

algo_center_line(text_segments) ==
    LET bl == build_line(text_segments)
        text == bl[1]
        colors == bl[2]
        content_width == algo_W - 2
        text_len == Len(text)
        left_pad == (content_width - text_len) \div 2
        right_pad == content_width - text_len - left_pad
        full == <<B_V>> \o Repeat(SP, left_pad) \o text
                        \o Repeat(SP, right_pad) \o <<B_V>>
        full_colors == <<CYAN>> \o Repeat(CYAN, left_pad) \o colors
                                \o Repeat(CYAN, right_pad) \o <<CYAN>>
    IN  <<full, full_colors>>

\* algo_two_col_line with the two column widths exchanged
algo_two_col_line_swapped(left_segments, right_segments) ==
    LET l == build_line(left_segments)
        r == build_line(right_segments)
        left_padded == l[1] \o Repeat(SP, algo_RIGHT_W - Len(l[1]))
        right_padded == r[1] \o Repeat(SP, algo_LEFT_W - Len(r[1]))
        full == <<B_V>> \o left_padded \o <<S_V>> \o right_padded \o <<B_V>>
        full_colors == <<CYAN>> \o l[2]
                                \o Repeat(CYAN, algo_RIGHT_W - Len(l[1]))
                                \o <<CYAN>>
                                \o r[2]
                                \o Repeat(CYAN, algo_LEFT_W - Len(r[1]))
                                \o <<CYAN>>
    IN  <<full, full_colors>>

algo_two_col_line(left_segments, right_segments) ==
    LET l == build_line(left_segments)
        r == build_line(right_segments)
        left_text == l[1]
        left_colors == l[2]
        right_text == r[1]
        right_colors == r[2]
        left_padded == left_text \o Repeat(SP, algo_LEFT_W - Len(left_text))
        right_padded == right_text \o Repeat(SP, algo_RIGHT_W - Len(right_text))
        full == <<B_V>> \o left_padded \o <<S_V>> \o right_padded \o <<B_V>>
        full_colors == <<CYAN>> \o left_colors
                                \o Repeat(CYAN, algo_LEFT_W - Len(left_text))
                                \o <<CYAN>>
                                \o right_colors
                                \o Repeat(CYAN, algo_RIGHT_W - Len(right_text))
                                \o <<CYAN>>
    IN  <<full, full_colors>>

\* algo_smart_log without the colour of the space after the timestamp
algo_smart_log_short(timestamp, tag, tag_color, message) ==
    LET content == <<SP>> \o timestamp \o <<SP>> \o tag \o <<SP>> \o message
        padding == algo_W - 2 - Len(content)
        full == <<B_V>> \o content \o Repeat(SP, padding) \o <<B_V>>
        colors == <<CYAN>> \o <<WHITE>>
                           \o Repeat(WHITE, Len(timestamp))
                           \o Repeat(tag_color, Len(tag))
                           \o <<WHITE>>
                           \o Repeat(WHITE, Len(message))
                           \o Repeat(CYAN, padding)
                           \o <<CYAN>>
    IN  <<full, colors>>

algo_smart_log(timestamp, tag, tag_color, message) ==
    LET content == <<SP>> \o timestamp \o <<SP>> \o tag \o <<SP>> \o message
        padding == algo_W - 2 - Len(content)
        full == <<B_V>> \o content \o Repeat(SP, padding) \o <<B_V>>
        colors == <<CYAN>> \o <<WHITE>>
                           \o Repeat(WHITE, Len(timestamp))
                           \o <<WHITE>>
                           \o Repeat(tag_color, Len(tag))
                           \o <<WHITE>>
                           \o Repeat(WHITE, Len(message))
                           \o Repeat(CYAN, padding)
                           \o <<CYAN>>
    IN  <<full, colors>>

\* --------------------------------------------------------------- gen_copy
copy_W == 98
copy_LEFT_W == 48
copy_RIGHT_W == 47

copy_full_border(left, right, mid) ==
    LET line == IF mid # None
                THEN left \o Repeat(B_H, copy_LEFT_W) \o mid
                          \o Repeat(B_H, copy_RIGHT_W) \o right
                ELSE left \o Repeat(B_H, copy_W - 2) \o right
    IN  <<line, Repeat(CYAN, Len(line))>>

copy_center_line(text_segments) ==
    LET bl == build_line(text_segments)
        text == bl[1]
        colors == bl[2]
        content_width == copy_W - 2
        text_len == Len(text)
        left_pad == (content_width - text_len) \div 2
        right_pad == content_width - text_len - left_pad
        full == <<B_V>> \o Repeat(SP, left_pad) \o text
                        \o Repeat(SP, right_pad) \o <<B_V>>
        full_colors == <<CYAN>> \o Repeat(CYAN, left_pad) \o colors
                                \o Repeat(CYAN, right_pad) \o <<CYAN>>
    IN  <<full, full_colors>>

copy_two_col_line(left_segments, right_segments) ==
    LET l == build_line(left_segments)
        r == build_line(right_segments)
        left_text == l[1]
        left_colors == l[2]
        right_text == r[1]
        right_colors == r[2]
        left_padded == left_text \o Repeat(SP, copy_LEFT_W - Len(left_text))
        right_padded == right_text \o Repeat(SP, copy_RIGHT_W - Len(right_text))
        full == <<B_V>> \o left_padded \o <<S_V>> \o right_padded \o <<B_V>>
        full_colors == <<CYAN>> \o left_colors
                                \o Repeat(CYAN, copy_LEFT_W - Len(left_text))
                                \o <<CYAN>>
                                \o right_colors
                                \o Repeat(CYAN, copy_RIGHT_W - Len(right_text))
                                \o <<CYAN>>
    IN  <<full, full_colors>>

\* copy_smart_log with the padding counted without the leading space
copy_smart_log_wide(timestamp, tag, tag_color, message) ==
    LET content == <<SP>> \o timestamp \o <<SP>> \o tag \o <<SP>> \o message
        padding == copy_W - 2 - (Len(content) - 1)
        full == <<B_V>> \o content \o Repeat(SP, padding) \o <<B_V>>
        colors == <<CYAN>> \o <<WHITE>>
                           \o Repeat(WHITE, Len(timestamp))
                           \o <<WHITE>>
                           \o Repeat(tag_color, Len(tag))
                           \o <<WHITE>>
                           \o Repeat(WHITE, Len(message))
                           \o Repeat(CYAN, padding)
                           \o <<CYAN>>
    IN  <<full, colors>>

copy_smart_log(timestamp, tag, tag_color, message) ==
    LET content == <<SP>> \o timestamp \o <<SP>> \o tag \o <<SP>> \o message
        padding == copy_W - 2 - Len(content)
        full == <<B_V>> \o content \o Repeat(SP, padding) \o <<B_V>>
        colors == <<CYAN>> \o <<WHITE>>
                           \o Repeat(WHITE, Len(timestamp))
                           \o <<WHITE>>
                           \o Repeat(tag_color, Len(tag))
                           \o <<WHITE>>
                           \o Repeat(WHITE, Len(message))
                           \o Repeat(CYAN, padding)
                           \o <<CYAN>>
    IN  <<full, colors>>

\* ------------------------------------------------------ the panels' data
\* gen_logo: raw_lines (lines 101-108)
logo_raw_lines ==
       \* ???  ??????????????????  ??????? ???????? ??????? ???   ??? ?????? ????   ???????????????  ???
    << <<<<<<9608, 9608, 9559, 32, 32, 9608, 9608, 9559, 9608, 9608, 9608, 9608, 9608, 9608, 9608, 9559, 9608, 9608, 9608, 9608, 9608, 9608, 9559, 32, 32, 9608, 9608, 9608, 9608, 9608, 9608, 9559, 32, 9608, 9608, 9608, 9608, 9608, 9608, 9608, 9559, 32, 9608, 9608, 9608, 9608, 9608, 9608, 9559, 32, 9608, 9608, 9559, 32, 32, 32, 9608, 9608, 9559, 32, 9608, 9608, 9608, 9608, 9608, 9559, 32, 9608, 9608, 9608, 9559, 32, 32, 32, 9608, 9608, 9559, 9608, 9608, 9608, 9608, 9608, 9608, 9608, 9608, 9559, 9608, 9608, 9559, 32, 32, 9608, 9608, 9559>>, CYAN>>>>
       \* ???  ??????????????????????????? ????????????????????   ????????????????  ????????????????????
    ,  <<<<<<9608, 9608, 9553, 32, 32, 9608, 9608, 9553, 9608, 9608, 9556, 9552, 9552, 9552, 9552, 9565, 9608, 9608, 9556, 9552, 9552, 9608, 9608, 9559, 9608, 9608, 9556, 9552, 9552, 9552, 9552, 9565, 32, 9608, 9608, 9556, 9552, 9552, 9552, 9552, 9565, 9608, 9608, 9556, 9552, 9552, 9552, 9608, 9608, 9559, 9608, 9608, 9553, 32, 32, 32, 9608, 9608, 9553, 9608, 9608, 9556, 9552, 9552, 9608, 9608, 9559, 9608, 9608, 9608, 9608, 9559, 32, 32, 9608, 9608, 9553, 9562, 9552, 9552, 9608, 9608, 9556, 9552, 9552, 9565, 9562, 9608, 9608, 9559, 9608, 9608, 9556, 9565>>, CYAN>>>>
       \* ??????????????  ???  ??????  ??????????  ???   ??????   ????????????????? ???   ???    ?????? 
    ,  <<<<<<9608, 9608, 9608, 9608, 9608, 9608, 9608, 9553, 9608, 9608, 9608, 9608, 9608, 9559, 32, 32, 9608, 9608, 9553, 32, 32, 9608, 9608, 9553, 9608, 9608, 9553, 32, 32, 9608, 9608, 9608, 9559, 9608, 9608, 9608, 9608, 9608, 9559, 32, 32, 9608, 9608, 9553, 32, 32, 32, 9608, 9608, 9553, 9608, 9608, 9553, 32, 32, 32, 9608, 9608, 9553, 9608, 9608, 9608, 9608, 9608, 9608, 9608, 9553, 9608, 9608, 9556, 9608, 9608, 9559, 32, 9608, 9608, 9553, 32, 32, 32, 9608, 9608, 9553, 32, 32, 32, 32, 9562, 9608, 9608, 9608, 9556, 9565, 32>>, CYAN>>>>
       \* ??????????????  ???  ??????   ?????????  ????? ??????   ?????????????????????   ???    ?????? 
    ,  <<<<<<9608, 9608, 9556, 9552, 9552, 9608, 9608, 9553, 9608, 9608, 9556, 9552, 9552, 9565, 32, 32, 9608, 9608, 9553, 32, 32, 9608, 9608, 9553, 9608, 9608, 9553, 32, 32, 32, 9608, 9608, 9553, 9608, 9608, 9556, 9552, 9552, 9565, 32, 32, 9608, 9608, 9553, 9604, 9604, 32, 9608, 9608, 9553, 9608, 9608, 9553, 32, 32, 32, 9608, 9608, 9553, 9608, 9608, 9556, 9552, 9552, 9608, 9608, 9553, 9608, 9608, 9553, 9562, 9608, 9608, 9559, 9608, 9608, 9553, 32, 32, 32, 9608, 9608, 9553, 32, 32, 32, 32, 9608, 9608, 9556, 9608, 9608, 9559, 32>>, CYAN>>>>
       \* ???  ?????????????????????????????????????????????????????????  ?????? ??????   ???   ???? ???
    ,  <<<<<<9608, 9608, 9553, 32, 32, 9608, 9608, 9553, 9608, 9608, 9608, 9608, 9608, 9608, 9608, 9559, 9608, 9608, 9608, 9608, 9608, 9608, 9556, 9565, 9562, 9608, 9608, 9608, 9608, 9608, 9608, 9556, 9565, 9608, 9608, 9608, 9608, 9608, 9608, 9608, 9559, 9562, 9608, 9608, 9608, 9608, 9608, 9608, 9556, 9565, 9562, 9608, 9608, 9608, 9608, 9608, 9608, 9556, 9565, 9608, 9608, 9553, 32, 32, 9608, 9608, 9553, 9608, 9608, 9553, 32, 9562, 9608, 9608, 9608, 9608, 9553, 32, 32, 32, 9608, 9608, 9553, 32, 32, 32, 9608, 9608, 9556, 9565, 32, 9608, 9608, 9559>>, CYAN>>>>
       \* ???  ??????????????????  ??????? ???????? ???????  ??????? ???  ??????  ?????   ???   ???  ???
    ,  <<<<<<9562, 9552, 9565, 32, 32, 9562, 9552, 9565, 9562, 9552, 9552, 9552, 9552, 9552, 9552, 9565, 9562, 9552, 9552, 9552, 9552, 9552, 9565, 32, 32, 9562, 9552, 9552, 9552, 9552, 9552, 9565, 32, 9562, 9552, 9552, 9552, 9552, 9552, 9552, 9565, 32, 9562, 9552, 9552, 9600, 9600, 9552, 9565, 32, 32, 9562, 9552, 9552, 9552, 9552, 9552, 9565, 32, 9562, 9552, 9565, 32, 32, 9562, 9552, 9565, 9562, 9552, 9565, 32, 32, 9562, 9552, 9552, 9552, 9565, 32, 32, 32, 9562, 9552, 9565, 32, 32, 32, 9562, 9552, 9565, 32, 32, 9562, 9552, 9565>>, CYAN>>>>
    >>

\* gen_dashboard: logo_lines (lines 140-147)
dashboard_logo_lines ==
       \* ???  ??????????????????  ??????? ???????? ??????? ???   ??? ?????? ????   ???????????????  ???
    << <<9608, 9608, 9559, 32, 32, 9608, 9608, 9559, 9608, 9608, 9608, 9608, 9608, 9608, 9608, 9559, 9608, 9608, 9608, 9608, 9608, 9608, 9559, 32, 32, 9608, 9608, 9608, 9608, 9608, 9608, 9559, 32, 9608, 9608, 9608, 9608, 9608, 9608, 9608, 9559, 32, 9608, 9608, 9608, 9608, 9608, 9608, 9559, 32, 9608, 9608, 9559, 32, 32, 32, 9608, 9608, 9559, 32, 9608, 9608, 9608, 9608, 9608, 9559, 32, 9608, 9608, 9608, 9559, 32, 32, 32, 9608, 9608, 9559, 9608, 9608, 9608, 9608, 9608, 9608, 9608, 9608, 9559, 9608, 9608, 9559, 32, 32, 9608, 9608, 9559>>
       \* ???  ??????????????????????????? ????????????????????   ????????????????  ????????????????????
    ,  <<9608, 9608, 9553, 32, 32, 9608, 9608, 9553, 9608, 9608, 9556, 9552, 9552, 9552, 9552, 9565, 9608, 9608, 9556, 9552, 9552, 9608, 9608, 9559, 9608, 9608, 9556, 9552, 9552, 9552, 9552, 9565, 32, 9608, 9608, 9556, 9552, 9552, 9552, 9552, 9565, 9608, 9608, 9556, 9552, 9552, 9552, 9608, 9608, 9559, 9608, 9608, 9553, 32, 32, 32, 9608, 9608, 9553, 9608, 9608, 9556, 9552, 9552, 9608, 9608, 9559, 9608, 9608, 9608, 9608, 9559, 32, 32, 9608, 9608, 9553, 9562, 9552, 9552, 9608, 9608, 9556, 9552, 9552, 9565, 9562, 9608, 9608, 9559, 9608, 9608, 9556, 9565>>
       \* ??????????????  ???  ??????  ??????????  ???   ??????   ????????????????? ???   ???    ?????? 
    ,  <<9608, 9608, 9608, 9608, 9608, 9608, 9608, 9553, 9608, 9608, 9608, 9608, 9608, 9559, 32, 32, 9608, 9608, 9553, 32, 32, 9608, 9608, 9553, 9608, 9608, 9553, 32, 32, 9608, 9608, 9608, 9559, 9608, 9608, 9608, 9608, 9608, 9559, 32, 32, 9608, 9608, 9553, 32, 32, 32, 9608, 9608, 9553, 9608, 9608, 9553, 32, 32, 32, 9608, 9608, 9553, 9608, 9608, 9608, 9608, 9608, 9608, 9608, 9553, 9608, 9608, 9556, 9608, 9608, 9559, 32, 9608, 9608, 9553, 32, 32, 32, 9608, 9608, 9553, 32, 32, 32, 32, 9562, 9608, 9608, 9608, 9556, 9565, 32>>
       \* ??????????????  ???  ??????   ?????????  ????? ??????   ?????????????????????   ???    ?????? 
    ,  <<9608, 9608, 9556, 9552, 9552, 9608, 9608, 9553, 9608, 9608, 9556, 9552, 9552, 9565, 32, 32, 9608, 9608, 9553, 32, 32, 9608, 9608, 9553, 9608, 9608, 9553, 32, 32, 32, 9608, 9608, 9553, 9608, 9608, 9556, 9552, 9552, 9565, 32, 32, 9608, 9608, 9553, 9604, 9604, 32, 9608, 9608, 9553, 9608, 9608, 9553, 32, 32, 32, 9608, 9608, 9553, 9608, 9608, 9556, 9552, 9552, 9608, 9608, 9553, 9608, 9608, 9553, 9562, 9608, 9608, 9559, 9608, 9608, 9553, 32, 32, 32, 9608, 9608, 9553, 32, 32, 32, 32, 9608, 9608, 9556, 9608, 9608, 9559, 32>>
       \* ???  ?????????????????????????????????????????????????????????  ?????? ??????   ???   ???? ???
    ,  <<9608, 9608, 9553, 32, 32, 9608, 9608, 9553, 9608, 9608, 9608, 9608, 9608, 9608, 9608, 9559, 9608, 9608, 9608, 9608, 9608, 9608, 9556, 9565, 9562, 9608, 9608, 9608, 9608, 9608, 9608, 9556, 9565, 9608, 9608, 9608, 9608, 9608, 9608, 9608, 9559, 9562, 9608, 9608, 9608, 9608, 9608, 9608, 9556, 9565, 9562, 9608, 9608, 9608, 9608, 9608, 9608, 9556, 9565, 9608, 9608, 9553, 32, 32, 9608, 9608, 9553, 9608, 9608, 9553, 32, 9562, 9608, 9608, 9608, 9608, 9553, 32, 32, 32, 9608, 9608, 9553, 32, 32, 32, 9608, 9608, 9556, 9565, 32, 9608, 9608, 9559>>
       \* ???  ??????????????????  ??????? ???????? ???????  ??????? ???  ??????  ?????   ???   ???  ???
    ,  <<9562, 9552, 9565, 32, 32, 9562, 9552, 9565, 9562, 9552, 9552, 9552, 9552, 9552, 9552, 9565, 9562, 9552, 9552, 9552, 9552, 9552, 9565, 32, 32, 9562, 9552, 9552, 9552, 9552, 9552, 9565, 32, 9562, 9552, 9552, 9552, 9552, 9552, 9552, 9565, 32, 9562, 9552, 9552, 9600, 9600, 9552, 9565, 32, 32, 9562, 9552, 9552, 9552, 9552, 9552, 9565, 32, 9562, 9552, 9565, 32, 32, 9562, 9552, 9565, 9562, 9552, 9565, 32, 32, 9562, 9552, 9552, 9552, 9565, 32, 32, 32, 9562, 9552, 9565, 32, 32, 32, 9562, 9552, 9565, 32, 32, 9562, 9552, 9565>>
    >>

\* gen_dashboard: the lines appended after the logo rows (lines 171-211)
dashboard_body_lines ==
    << dashboard_full_border(<<B_L>>, <<B_H>>, <<B_R>>)
       \* Prop Futures Algo Trading  v2.3.4
    ,  dashboard_center_line(<<<<<<80, 114, 111, 112, 32, 70, 117, 116, 117, 114, 101, 115, 32, 65, 108, 103, 111, 32, 84, 114, 97, 100, 105, 110, 103, 32, 32, 118, 50, 46, 51, 46, 52>>, WHITE>>>>)
    ,  dashboard_full_border(<<B_L>>, <<B_H>>, <<B_R>>)
       \* Welcome, HQX Trader!
    ,  dashboard_center_line(<<<<<<87, 101, 108, 99, 111, 109, 101, 44, 32, 72, 81, 88, 32, 84, 114, 97, 100, 101, 114, 33>>, YELLOW>>>>)
    ,  dashboard_full_border(<<B_L>>, <<B_H>>, <<B_R>>)
       \* ?  | TopStep |        | ?  | Apex Trader Funding
    ,  dashboard_center_line(<<<<<<9679, 32>>, GREEN>>, <<<<84, 111, 112, 83, 116, 101, 112>>, WHITE>>, <<<<32, 32, 32, 32, 32, 32>>, CYAN>>, <<<<9679, 32>>, GREEN>>, <<<<65, 112, 101, 120, 32, 84, 114, 97, 100, 101, 114, 32, 70, 117, 110, 100, 105, 110, 103>>, WHITE>>>>)
    ,  dashboard_full_border(<<B_L>>, <<B_H>>, <<B_R>>)
       \* ?  | Connections:  |      | ?  | Accounts:  |      | ?  | Balance:  | $449,682 |      | ?  | P&L:  | +$1,250
    ,  dashboard_center_line(<<<<<<10004, 32>>, YELLOW>>, <<<<67, 111, 110, 110, 101, 99, 116, 105, 111, 110, 115, 58, 32>>, WHITE>>, <<<<50>>, GREEN>>, <<<<32, 32, 32, 32>>, CYAN>>, <<<<10004, 32>>, YELLOW>>, <<<<65, 99, 99, 111, 117, 110, 116, 115, 58, 32>>, WHITE>>, <<<<50>>, GREEN>>, <<<<32, 32, 32, 32>>, CYAN>>, <<<<10004, 32>>, YELLOW>>, <<<<66, 97, 108, 97, 110, 99, 101, 58, 32>>, WHITE>>, <<<<36, 52, 52, 57, 44, 54, 56, 50>>, GREEN>>, <<<<32, 32, 32, 32>>, CYAN>>, <<<<10004, 32>>, YELLOW>>, <<<<80, 38, 76, 58, 32>>, WHITE>>, <<<<43, 36, 49, 44, 50, 53, 48>>, GREEN>>>>)
    ,  dashboard_full_border(<<B_L>>, <<B_H>>, <<B_R>>)
       \*   [1] View Accounts | [2] View Stats
    ,  dashboard_menu_line(<<<<<<32, 32, 91, 49, 93, 32, 86, 105, 101, 119, 32, 65, 99, 99, 111, 117, 110, 116, 115>>, CYAN>>>>, <<<<<<91, 50, 93, 32, 86, 105, 101, 119, 32, 83, 116, 97, 116, 115>>, CYAN>>>>)
       \*   [+] Add Prop-Account | [A] Algo-Trading
    ,  dashboard_menu_line(<<<<<<32, 32, 91, 43, 93, 32, 65, 100, 100, 32, 80, 114, 111, 112, 45, 65, 99, 99, 111, 117, 110, 116>>, CYAN>>>>, <<<<<<91, 65, 93, 32, 65, 108, 103, 111, 45, 84, 114, 97, 100, 105, 110, 103>>, MAGENTA>>>>)
       \*   [U] Update HQX | [X] Disconnect
    ,  dashboard_menu_line(<<<<<<32, 32, 91, 85, 93, 32, 85, 112, 100, 97, 116, 101, 32, 72, 81, 88>>, YELLOW>>>>, <<<<<<91, 88, 93, 32, 68, 105, 115, 99, 111, 110, 110, 101, 99, 116>>, RED>>>>)
    ,  dashboard_full_border(<<B_BL>>, <<B_H>>, <<B_BR>>)
    >>

\* gen_algo: lines (lines 293-322)
algo_lines ==
    << algo_full_border(<<B_TL>>, <<B_TR>>, None)
       \* One Account Mode
    ,  algo_center_line(<<<<<<79, 110, 101, 32, 65, 99, 99, 111, 117, 110, 116, 32, 77, 111, 100, 101>>, YELLOW>>>>)
    ,  algo_full_border(<<B_L>>, <<B_R>>, <<B_T>>)
       \*  Account:  | HQX ***** |  Symbol:  | MNQ Mar25
    ,  algo_two_col_line(<<<<<<32, 65, 99, 99, 111, 117, 110, 116, 58, 32>>, WHITE>>, <<<<72, 81, 88, 32, 42, 42, 42, 42, 42>>, CYAN>>>>, <<<<<<32, 83, 121, 109, 98, 111, 108, 58, 32>>, WHITE>>, <<<<77, 78, 81, 32, 77, 97, 114, 50, 53>>, YELLOW>>>>)
    ,  algo_full_border(<<B_L>>, <<B_R>>, <<B_X>>)
       \*  Qty:  |  P&L:  | +$42.50
    ,  algo_two_col_line(<<<<<<32, 81, 116, 121, 58, 32>>, WHITE>>, <<<<49>>, GREEN>>>>, <<<<<<32, 80, 38, 76, 58, 32>>, WHITE>>, <<<<43, 36, 52, 50, 46, 53, 48>>, GREEN>>>>)
       \*  Target:  | $200.00 |  Risk:  | $100.00
    ,  algo_two_col_line(<<<<<<32, 84, 97, 114, 103, 101, 116, 58, 32>>, WHITE>>, <<<<36, 50, 48, 48, 46, 48, 48>>, GREEN>>>>, <<<<<<32, 82, 105, 115, 107, 58, 32>>, WHITE>>, <<<<36, 49, 48, 48, 46, 48, 48>>, RED>>>>)
       \*  Trades:  |   W/L:  |  Server:  | ON
    ,  algo_two_col_line(<<<<<<32, 84, 114, 97, 100, 101, 115, 58, 32>>, WHITE>>, <<<<51>>, WHITE>>, <<<<32, 32, 87, 47, 76, 58, 32>>, WHITE>>, <<<<50>>, GREEN>>, <<<<47>>, WHITE>>, <<<<49>>, RED>>>>, <<<<<<32, 83, 101, 114, 118, 101, 114, 58, 32>>, WHITE>>, <<<<79, 78>>, GREEN>>>>)
    ,  algo_full_border(<<B_L>>, <<B_R>>, <<B_X>>)
       \*  Latency:  | 45ms |  Propfirm:  | Apex
    ,  algo_two_col_line(<<<<<<32, 76, 97, 116, 101, 110, 99, 121, 58, 32>>, WHITE>>, <<<<52, 53, 109, 115>>, GREEN>>>>, <<<<<<32, 80, 114, 111, 112, 102, 105, 114, 109, 58, 32>>, WHITE>>, <<<<65, 112, 101, 120>>, CYAN>>>>)
    ,  algo_full_border(<<B_L>>, <<B_R>>, <<B_B>>)
       \* 09:31:02 | SYS   | HQX Algo Engine v2.3.4 initialized
    ,  algo_smart_log(<<48, 57, 58, 51, 49, 58, 48, 50>>, <<83, 89, 83, 32, 32>>, CYAN, <<72, 81, 88, 32, 65, 108, 103, 111, 32, 69, 110, 103, 105, 110, 101, 32, 118, 50, 46, 51, 46, 52, 32, 105, 110, 105, 116, 105, 97, 108, 105, 122, 101, 100>>)
       \* 09:31:03 | CONN  | Connected to Rithmic
    ,  algo_smart_log(<<48, 57, 58, 51, 49, 58, 48, 51>>, <<67, 79, 78, 78, 32>>, GREEN, <<67, 111, 110, 110, 101, 99, 116, 101, 100, 32, 116, 111, 32, 82, 105, 116, 104, 109, 105, 99>>)
       \* 09:31:03 | READY | Listening MNQ Mar25 | Target $200 | Risk $100
    ,  algo_smart_log(<<48, 57, 58, 51, 49, 58, 48, 51>>, <<82, 69, 65, 68, 89>>, CYAN, <<76, 105, 115, 116, 101, 110, 105, 110, 103, 32, 77, 78, 81, 32, 77, 97, 114, 50, 53, 32, 124, 32, 84, 97, 114, 103, 101, 116, 32, 36, 50, 48, 48, 32, 124, 32, 82, 105, 115, 107, 32, 36, 49, 48, 48>>)
       \* 09:32:15 | SYS   | Signal detected: LONG setup forming
    ,  algo_smart_log(<<48, 57, 58, 51, 50, 58, 49, 53>>, <<83, 89, 83, 32, 32>>, CYAN, <<83, 105, 103, 110, 97, 108, 32, 100, 101, 116, 101, 99, 116, 101, 100, 58, 32, 76, 79, 78, 71, 32, 115, 101, 116, 117, 112, 32, 102, 111, 114, 109, 105, 110, 103>>)
       \* 09:32:16 | BUY   | +1 MNQ @ 21,845.25 | SL: 21,837.25 | TP: 21,869.25
    ,  algo_smart_log(<<48, 57, 58, 51, 50, 58, 49, 54>>, <<66, 85, 89, 32, 32>>, GREEN, <<43, 49, 32, 77, 78, 81, 32, 64, 32, 50, 49, 44, 56, 52, 53, 46, 50, 53, 32, 124, 32, 83, 76, 58, 32, 50, 49, 44, 56, 51, 55, 46, 50, 53, 32, 124, 32, 84, 80, 58, 32, 50, 49, 44, 56, 54, 57, 46, 50, 53>>)
       \* 09:33:42 | SYS   | TP1 hit - moving SL to breakeven
    ,  algo_smart_log(<<48, 57, 58, 51, 51, 58, 52, 50>>, <<83, 89, 83, 32, 32>>, CYAN, <<84, 80, 49, 32, 104, 105, 116, 32, 45, 32, 109, 111, 118, 105, 110, 103, 32, 83, 76, 32, 116, 111, 32, 98, 114, 101, 97, 107, 101, 118, 101, 110>>)
       \* 09:34:18 | SELL  | -1 MNQ @ 21,862.50 | P&L: +$34.50
    ,  algo_smart_log(<<48, 57, 58, 51, 52, 58, 49, 56>>, <<83, 69, 76, 76, 32>>, RED, <<45, 49, 32, 77, 78, 81, 32, 64, 32, 50, 49, 44, 56, 54, 50, 46, 53, 48, 32, 124, 32, 80, 38, 76, 58, 32, 43, 36, 51, 52, 46, 53, 48>>)
       \* 09:34:18 | WIN   | Trade #1 closed +$34.50 | Session: +$34.50
    ,  algo_smart_log(<<48, 57, 58, 51, 52, 58, 49, 56>>, <<87, 73, 78, 32, 32>>, GREEN, <<84, 114, 97, 100, 101, 32, 35, 49, 32, 99, 108, 111, 115, 101, 100, 32, 43, 36, 51, 52, 46, 53, 48, 32, 124, 32, 83, 101, 115, 115, 105, 111, 110, 58, 32, 43, 36, 51, 52, 46, 53, 48>>)
       \* 09:35:05 | SYS   | Signal detected: SHORT setup forming
    ,  algo_smart_log(<<48, 57, 58, 51, 53, 58, 48, 53>>, <<83, 89, 83, 32, 32>>, CYAN, <<83, 105, 103, 110, 97, 108, 32, 100, 101, 116, 101, 99, 116, 101, 100, 58, 32, 83, 72, 79, 82, 84, 32, 115, 101, 116, 117, 112, 32, 102, 111, 114, 109, 105, 110, 103>>)
       \* 09:35:06 | SELL  | -1 MNQ @ 21,858.00 | SL: 21,866.00 | TP: 21,834.00
    ,  algo_smart_log(<<48, 57, 58, 51, 53, 58, 48, 54>>, <<83, 69, 76, 76, 32>>, RED, <<45, 49, 32, 77, 78, 81, 32, 64, 32, 50, 49, 44, 56, 53, 56, 46, 48, 48, 32, 124, 32, 83, 76, 58, 32, 50, 49, 44, 56, 54, 54, 46, 48, 48, 32, 124, 32, 84, 80, 58, 32, 50, 49, 44, 56, 51, 52, 46, 48, 48>>)
       \* 09:35:52 | SYS   | Price action weak - tightening SL
    ,  algo_smart_log(<<48, 57, 58, 51, 53, 58, 53, 50>>, <<83, 89, 83, 32, 32>>, CYAN, <<80, 114, 105, 99, 101, 32, 97, 99, 116, 105, 111, 110, 32, 119, 101, 97, 107, 32, 45, 32, 116, 105, 103, 104, 116, 101, 110, 105, 110, 103, 32, 83, 76>>)
       \* 09:36:15 | BUY   | +1 MNQ @ 21,854.00 | P&L: +$8.00
    ,  algo_smart_log(<<48, 57, 58, 51, 54, 58, 49, 53>>, <<66, 85, 89, 32, 32>>, GREEN, <<43, 49, 32, 77, 78, 81, 32, 64, 32, 50, 49, 44, 56, 53, 52, 46, 48, 48, 32, 124, 32, 80, 38, 76, 58, 32, 43, 36, 56, 46, 48, 48>>)
       \* 09:36:15 | WIN   | Trade #2 closed +$8.00 | Session: +$42.50
    ,  algo_smart_log(<<48, 57, 58, 51, 54, 58, 49, 53>>, <<87, 73, 78, 32, 32>>, GREEN, <<84, 114, 97, 100, 101, 32, 35, 50, 32, 99, 108, 111, 115, 101, 100, 32, 43, 36, 56, 46, 48, 48, 32, 124, 32, 83, 101, 115, 115, 105, 111, 110, 58, 32, 43, 36, 52, 50, 46, 53, 48>>)
       \* 09:36:30 | INFO  | Scanning for next setup...
    ,  algo_smart_log(<<48, 57, 58, 51, 54, 58, 51, 48>>, <<73, 78, 70, 79, 32>>, WHITE, <<83, 99, 97, 110, 110, 105, 110, 103, 32, 102, 111, 114, 32, 110, 101, 120, 116, 32, 115, 101, 116, 117, 112, 46, 46, 46>>)
    ,  algo_full_border(<<B_L>>, <<B_R>>, None)
       \* Press  | [X] |  to stop trading
    ,  algo_center_line(<<<<<<80, 114, 101, 115, 115, 32>>, WHITE>>, <<<<91, 88, 93>>, RED>>, <<<<32, 116, 111, 32, 115, 116, 111, 112, 32, 116, 114, 97, 100, 105, 110, 103>>, WHITE>>>>)
    ,  algo_full_border(<<B_BL>>, <<B_BR>>, None)
    >>

\* gen_copy: lines (lines 383-417)
copy_lines ==
    << copy_full_border(<<B_TL>>, <<B_TR>>, None)
       \* Copy Trading Mode
    ,  copy_center_line(<<<<<<67, 111, 112, 121, 32, 84, 114, 97, 100, 105, 110, 103, 32, 77, 111, 100, 101>>, YELLOW>>>>)
    ,  copy_full_border(<<B_L>>, <<B_R>>, <<B_T>>)
       \*  Lead:  | HQX ***** |  Follower:  | HQX *****
    ,  copy_two_col_line(<<<<<<32, 76, 101, 97, 100, 58, 32>>, WHITE>>, <<<<72, 81, 88, 32, 42, 42, 42, 42, 42>>, CYAN>>>>, <<<<<<32, 70, 111, 108, 108, 111, 119, 101, 114, 58, 32>>, WHITE>>, <<<<72, 81, 88, 32, 42, 42, 42, 42, 42>>, CYAN>>>>)
    ,  copy_full_border(<<B_L>>, <<B_R>>, None)
       \* Symbol:  | MNQ Mar25
    ,  copy_center_line(<<<<<<83, 121, 109, 98, 111, 108, 58, 32>>, WHITE>>, <<<<77, 78, 81, 32, 77, 97, 114, 50, 53>>, YELLOW>>>>)
    ,  copy_full_border(<<B_L>>, <<B_R>>, <<B_T>>)
       \*  Qty:  |  Qty: 
    ,  copy_two_col_line(<<<<<<32, 81, 116, 121, 58, 32>>, WHITE>>, <<<<49>>, GREEN>>>>, <<<<<<32, 81, 116, 121, 58, 32>>, WHITE>>, <<<<49>>, GREEN>>>>)
    ,  copy_full_border(<<B_L>>, <<B_R>>, <<B_X>>)
       \*  Target:  | $400.00 |  Risk:  | $200.00
    ,  copy_two_col_line(<<<<<<32, 84, 97, 114, 103, 101, 116, 58, 32>>, WHITE>>, <<<<36, 52, 48, 48, 46, 48, 48>>, GREEN>>>>, <<<<<<32, 82, 105, 115, 107, 58, 32>>, WHITE>>, <<<<36, 50, 48, 48, 46, 48, 48>>, RED>>>>)
    ,  copy_full_border(<<B_L>>, <<B_R>>, <<B_X>>)
       \*  P&L:  | +$62.50 |  Server:  | ON
    ,  copy_two_col_line(<<<<<<32, 80, 38, 76, 58, 32>>, WHITE>>, <<<<43, 36, 54, 50, 46, 53, 48>>, GREEN>>>>, <<<<<<32, 83, 101, 114, 118, 101, 114, 58, 32>>, WHITE>>, <<<<79, 78>>, GREEN>>>>)
    ,  copy_full_border(<<B_L>>, <<B_R>>, <<B_X>>)
       \*  Trades:  |   W/L:  |  Latency:  | 38ms
    ,  copy_two_col_line(<<<<<<32, 84, 114, 97, 100, 101, 115, 58, 32>>, WHITE>>, <<<<50>>, WHITE>>, <<<<32, 32, 87, 47, 76, 58, 32>>, WHITE>>, <<<<50>>, GREEN>>, <<<<47>>, WHITE>>, <<<<48>>, RED>>>>, <<<<<<32, 76, 97, 116, 101, 110, 99, 121, 58, 32>>, WHITE>>, <<<<51, 56, 109, 115>>, GREEN>>>>)
    ,  copy_full_border(<<B_L>>, <<B_R>>, <<B_B>>)
       \* 09:31:02 | SYS   | Copy Trading Engine initialized
    ,  copy_smart_log(<<48, 57, 58, 51, 49, 58, 48, 50>>, <<83, 89, 83, 32, 32>>, CYAN, <<67, 111, 112, 121, 32, 84, 114, 97, 100, 105, 110, 103, 32, 69, 110, 103, 105, 110, 101, 32, 105, 110, 105, 116, 105, 97, 108, 105, 122, 101, 100>>)
       \* 09:31:03 | CONN  | Lead account connected
    ,  copy_smart_log(<<48, 57, 58, 51, 49, 58, 48, 51>>, <<67, 79, 78, 78, 32>>, GREEN, <<76, 101, 97, 100, 32, 97, 99, 99, 111, 117, 110, 116, 32, 99, 111, 110, 110, 101, 99, 116, 101, 100>>)
       \* 09:31:03 | CONN  | Follower account connected
    ,  copy_smart_log(<<48, 57, 58, 51, 49, 58, 48, 51>>, <<67, 79, 78, 78, 32>>, GREEN, <<70, 111, 108, 108, 111, 119, 101, 114, 32, 97, 99, 99, 111, 117, 110, 116, 32, 99, 111, 110, 110, 101, 99, 116, 101, 100>>)
       \* 09:31:04 | READY | Watching MNQ Mar25 | Target $400 | Risk $200
    ,  copy_smart_log(<<48, 57, 58, 51, 49, 58, 48, 52>>, <<82, 69, 65, 68, 89>>, CYAN, <<87, 97, 116, 99, 104, 105, 110, 103, 32, 77, 78, 81, 32, 77, 97, 114, 50, 53, 32, 124, 32, 84, 97, 114, 103, 101, 116, 32, 36, 52, 48, 48, 32, 124, 32, 82, 105, 115, 107, 32, 36, 50, 48, 48>>)
       \* 09:32:15 | BUY   | Lead: +1 MNQ @ 21,845.25
    ,  copy_smart_log(<<48, 57, 58, 51, 50, 58, 49, 53>>, <<66, 85, 89, 32, 32>>, GREEN, <<76, 101, 97, 100, 58, 32, 43, 49, 32, 77, 78, 81, 32, 64, 32, 50, 49, 44, 56, 52, 53, 46, 50, 53>>)
       \* 09:32:15 | BUY   | Follower: Copied +1 MNQ @ 21,845.50 (0.25 slip)
    ,  copy_smart_log(<<48, 57, 58, 51, 50, 58, 49, 53>>, <<66, 85, 89, 32, 32>>, GREEN, <<70, 111, 108, 108, 111, 119, 101, 114, 58, 32, 67, 111, 112, 105, 101, 100, 32, 43, 49, 32, 77, 78, 81, 32, 64, 32, 50, 49, 44, 56, 52, 53, 46, 53, 48, 32, 40, 48, 46, 50, 53, 32, 115, 108, 105, 112, 41>>)
       \* 09:33:42 | SELL  | Lead: -1 MNQ @ 21,860.50
    ,  copy_smart_log(<<48, 57, 58, 51, 51, 58, 52, 50>>, <<83, 69, 76, 76, 32>>, RED, <<76, 101, 97, 100, 58, 32, 45, 49, 32, 77, 78, 81, 32, 64, 32, 50, 49, 44, 56, 54, 48, 46, 53, 48>>)
       \* 09:33:42 | SELL  | Follower: Copied -1 MNQ @ 21,860.25 (0.25 slip)
    ,  copy_smart_log(<<48, 57, 58, 51, 51, 58, 52, 50>>, <<83, 69, 76, 76, 32>>, RED, <<70, 111, 108, 108, 111, 119, 101, 114, 58, 32, 67, 111, 112, 105, 101, 100, 32, 45, 49, 32, 77, 78, 81, 32, 64, 32, 50, 49, 44, 56, 54, 48, 46, 50, 53, 32, 40, 48, 46, 50, 53, 32, 115, 108, 105, 112, 41>>)
       \* 09:33:42 | WIN   | Trade #1 | Lead: +$30.50 | Follower: +$29.50
    ,  copy_smart_log(<<48, 57, 58, 51, 51, 58, 52, 50>>, <<87, 73, 78, 32, 32>>, GREEN, <<84, 114, 97, 100, 101, 32, 35, 49, 32, 124, 32, 76, 101, 97, 100, 58, 32, 43, 36, 51, 48, 46, 53, 48, 32, 124, 32, 70, 111, 108, 108, 111, 119, 101, 114, 58, 32, 43, 36, 50, 57, 46, 53, 48>>)
       \* 09:34:55 | BUY   | Lead: +1 MNQ @ 21,855.00
    ,  copy_smart_log(<<48, 57, 58, 51, 52, 58, 53, 53>>, <<66, 85, 89, 32, 32>>, GREEN, <<76, 101, 97, 100, 58, 32, 43, 49, 32, 77, 78, 81, 32, 64, 32, 50, 49, 44, 56, 53, 53, 46, 48, 48>>)
       \* 09:34:55 | BUY   | Follower: Copied +1 MNQ @ 21,855.00 (no slip)
    ,  copy_smart_log(<<48, 57, 58, 51, 52, 58, 53, 53>>, <<66, 85, 89, 32, 32>>, GREEN, <<70, 111, 108, 108, 111, 119, 101, 114, 58, 32, 67, 111, 112, 105, 101, 100, 32, 43, 49, 32, 77, 78, 81, 32, 64, 32, 50, 49, 44, 56, 53, 53, 46, 48, 48, 32, 40, 110, 111, 32, 115, 108, 105, 112, 41>>)
       \* 09:35:38 | SELL  | Lead: -1 MNQ @ 21,871.50
    ,  copy_smart_log(<<48, 57, 58, 51, 53, 58, 51, 56>>, <<83, 69, 76, 76, 32>>, RED, <<76, 101, 97, 100, 58, 32, 45, 49, 32, 77, 78, 81, 32, 64, 32, 50, 49, 44, 56, 55, 49, 46, 53, 48>>)
       \* 09:35:38 | SELL  | Follower: Copied -1 MNQ @ 21,871.25 (0.25 slip)
    ,  copy_smart_log(<<48, 57, 58, 51, 53, 58, 51, 56>>, <<83, 69, 76, 76, 32>>, RED, <<70, 111, 108, 108, 111, 119, 101, 114, 58, 32, 67, 111, 112, 105, 101, 100, 32, 45, 49, 32, 77, 78, 81, 32, 64, 32, 50, 49, 44, 56, 55, 49, 46, 50, 53, 32, 40, 48, 46, 50, 53, 32, 115, 108, 105, 112, 41>>)
       \* 09:35:38 | WIN   | Trade #2 | Lead: +$33.00 | Follower: +$32.50
    ,  copy_smart_log(<<48, 57, 58, 51, 53, 58, 51, 56>>, <<87, 73, 78, 32, 32>>, GREEN, <<84, 114, 97, 100, 101, 32, 35, 50, 32, 124, 32, 76, 101, 97, 100, 58, 32, 43, 36, 51, 51, 46, 48, 48, 32, 124, 32, 70, 111, 108, 108, 111, 119, 101, 114, 58, 32, 43, 36, 51, 50, 46, 53, 48>>)
       \* 09:35:50 | INFO  | Session P&L: +$63.50 / +$62.00 | Waiting...
    ,  copy_smart_log(<<48, 57, 58, 51, 53, 58, 53, 48>>, <<73, 78, 70, 79, 32>>, WHITE, <<83, 101, 115, 115, 105, 111, 110, 32, 80, 38, 76, 58, 32, 43, 36, 54, 51, 46, 53, 48, 32, 47, 32, 43, 36, 54, 50, 46, 48, 48, 32, 124, 32, 87, 97, 105, 116, 105, 110, 103, 46, 46, 46>>)
    ,  copy_full_border(<<B_L>>, <<B_R>>, None)
       \* Press  | [X] |  to stop trading
    ,  copy_center_line(<<<<<<80, 114, 101, 115, 115, 32>>, WHITE>>, <<<<91, 88, 93>>, RED>>, <<<<32, 116, 111, 32, 115, 116, 111, 112, 32, 116, 114, 97, 100, 105, 110, 103>>, WHITE>>>>)
    ,  copy_full_border(<<B_BL>>, <<B_BR>>, None)
    >>

\* gen_logo: every raw row through the loop body
gen_logo_lines ==
    [i \in 1..Len(logo_raw_lines) |-> logo_row(logo_raw_lines[i])]

\* gen_dashboard: top border, the logo rows, then the appended lines
gen_dashboard_lines ==
    <<dashboard_full_border(<<B_TL>>, <<B_H>>, <<B_TR>>)>>
    \o [i \in 1..Len(dashboard_logo_lines) |->
            dashboard_logo_line(dashboard_logo_lines[i])]
    \o dashboard_body_lines

\* ------------------------------------------------------------ the driver
\* __main__ with gen_algo called before gen_dashboard
JOBS_reordered ==
    << [gen |-> "gen_logo", lines |-> gen_logo_lines,
        filename |-> "logo.png", font_size |-> <<28>>],
       [gen |-> "gen_algo", lines |-> algo_lines,
        filename |-> "algo-trading.png", font_size |-> <<>>],
       [gen |-> "gen_dashboard", lines |-> gen_dashboard_lines,
        filename |-> "dashboard.png", font_size |-> <<>>],
       [gen |-> "gen_copy", lines |-> copy_lines,
        filename |-> "copy-trading.png", font_size |-> <<>>] >>

\* __main__: the gen_* functions in call order, each with the arguments of
\* its make_image_fixed_width call; font_size <<>> is the omitted argument
JOBS ==
    << [gen |-> "gen_logo", lines |-> gen_logo_lines,
        filename |-> "logo.png", font_size |-> <<28>>],
       [gen |-> "gen_dashboard", lines |-> gen_dashboard_lines,
        filename |-> "dashboard.png", font_size |-> <<>>],
       [gen |-> "gen_algo", lines |-> algo_lines,
        filename |-> "algo-trading.png", font_size |-> <<>>],
       [gen |-> "gen_copy", lines |-> copy_lines,
        filename |-> "copy-trading.png", font_size |-> <<>>] >>

\* ---------------------------------------------------------------- get_font
FONT_PATHS ==
    << "/usr/share/fonts/truetype/dejavu/DejaVuSansMono.ttf",
       "/usr/share/fonts/truetype/dejavu/DejaVuSansMono-Bold.ttf" >>

\* ImageFont.truetype(p, size): the font of file p at the size asked for
truetype(p, size) == [kind |-> "truetype", path |-> p, size |-> size]

\* ImageFont.load_default(): the library's built-in font; it takes no size,
\* so the size is the library's own
DEFAULT_FONT_SIZE == 10
load_default == [kind |-> "default", path |-> "", size |-> DEFAULT_FONT_SIZE]

\* get_font probing the paths from the last to the first
RECURSIVE get_font_loop_reversed(_, _, _)
get_font_loop_reversed(exists, i, size) ==
    IF i > Len(FONT_PATHS) THEN load_default
    ELSE IF exists[FONT_PATHS[Len(FONT_PATHS) + 1 - i]]
         THEN truetype(FONT_PATHS[Len(FONT_PATHS) + 1 - i], size)
    ELSE get_font_loop_reversed(exists, i + 1, size)

RECURSIVE get_font_loop(_, _, _)
get_font_loop(exists, i, size) ==
    IF i > Len(FONT_PATHS) THEN load_default
    ELSE IF exists[FONT_PATHS[i]] THEN truetype(FONT_PATHS[i], size)
    ELSE get_font_loop(exists, i + 1, size)

get_font(exists, size) == get_font_loop(exists, 1, size)

\* ------------------------------------------------- make_image_fixed_width
\* font_size defaults to BASE_FONT_SIZE when omitted
effective_font_size(font_size) ==
    IF font_size = <<>> THEN BASE_FONT_SIZE ELSE font_size[1]

render_size(font_size) == font_size * SCALE

\* font.getbbox("W")[2]: the glyph advance the library measures.  Both
\* DejaVu Sans Mono faces advance 1233/2048 em; the built-in font does not
\* scale.
DEFAULT_CHAR_WIDTH == 6
char_width(font) ==
    IF font.kind = "truetype" THEN (font.size * 1233 + 1024) \div 2048
    ELSE DEFAULT_CHAR_WIDTH

\* int(render_size * 1.3): truncation of a non-negative float product
line_height(rs) == (rs * 13) \div 10

px == 40 * SCALE
py == 30 * SCALE

SeqMax(lens) == CHOOSE m \in lens : \A n \in lens : n <= m

max_chars(ls) == SeqMax({Len(ls[i][1]) : i \in 1..Len(ls)})

\* the canvas height with the vertical padding added once
canvas_H_one_pad(nlines, lh) == nlines * lh + py

canvas_W(mc, cw) == mc * cw + px * 2
canvas_H(nlines, lh) == nlines * lh + py * 2

\* the drawing loop: one row per line, each character at x = px + i * cw
\* with color_map[i], or WHITE where the colour map has no entry
draw_rows(ls, f, cw, lh) ==
    [r \in 1..Len(ls) |->
        [ y |-> py + (r - 1) * lh,
          x |-> px,
          advance |-> cw,
          font |-> f,
          text |-> ls[r][1],
          fill |-> [i \in 1..Len(ls[r][1]) |->
                        IF i <= Len(ls[r][2]) THEN ls[r][2][i] ELSE WHITE] ]]

final_size(W, H) == <<W \div SCALE, H \div SCALE>>

\* the dimension arithmetic of make_image_fixed_width end to end
image_size(font_size, nlines, mc, cw) ==
    final_size(canvas_W(mc, cw),
               canvas_H(nlines, line_height(render_size(font_size))))

\* ------------------------------------------------------------------ state
VARIABLES
    run,          \* which invocation of the script this is
    fontExists,   \* os.path.exists for each font path, in this invocation
    pc,           \* where the script is
    job,          \* index in JOBS of the gen_* call in progress
    lines,        \* the panel lines handed to make_image_fixed_width
    font,         \* make_image_fixed_width's font
    canvas,       \* the image being drawn: [W, H, rows]
    final,        \* <<final_w, final_h>> after the resize
    files,        \* the asset directory: file name -> saved image
    stdout,       \* what the script has printed, in this invocation
    events,       \* history: the steps taken in this invocation, in order
    prevEnv,      \* history: fontExists of the previous invocation
    prevFiles,    \* history: the asset directory as the previous invocation left it
    prevStdout,   \* history: what the previous invocation printed
    fnOp,         \* which builder was applied on its own ("" in the script)
    fnArg,        \* its input
    fnRes         \* its result

vars == <<run, fontExists, pc, job, lines, font, canvas, final, files,
          stdout, events, prevEnv, prevFiles, prevStdout, fnOp, fnArg, fnRes>>

script == <<run, fontExists, pc, job, lines, font, canvas, final, files,
            stdout, events, prevEnv, prevFiles, prevStdout>>
fn == <<fnOp, fnArg, fnRes>>

Envs == [{FONT_PATHS[i] : i \in 1..Len(FONT_PATHS)} -> BOOLEAN]

NoFiles == [n \in {} |-> {}]
NoFont == [kind |-> "none", path |-> "", size |-> 0]
NoCanvas == [W |-> 0, H |-> 0, rows |-> <<>>]

Init ==
    /\ run = 1
    /\ fontExists \in Envs
    /\ pc = "gen"
    /\ job = 1
    /\ lines = <<>>
    /\ font = NoFont
    /\ canvas = NoCanvas
    /\ final = <<0, 0>>
    /\ files = NoFiles
    /\ stdout = <<>>
    /\ events = <<>>
    /\ prevEnv = fontExists
    /\ prevFiles = NoFiles
    /\ prevStdout = <<>>
    /\ fnOp = ""
    /\ fnArg = <<>>
    /\ fnRes = <<>>

\* gen_*: build the panel's lines and call make_image_fixed_width
GenLayout ==
    /\ pc = "gen"
    /\ lines' = JOBS[job].lines
    /\ events' = Append(events, <<JOBS[job].filename, "layout">>)
    /\ pc' = "font"
    /\ UNCHANGED <<run, fontExists, job, font, canvas, final, files, stdout,
                   prevEnv, prevFiles, prevStdout, fn>>

\* font = get_font(render_size)
GetFont ==
    /\ pc = "font"
    /\ font' = get_font(fontExists,
                        render_size(effective_font_size(JOBS[job].font_size)))
    /\ pc' = "canvas"
    /\ UNCHANGED <<run, fontExists, job, lines, canvas, final, files, stdout,
                   events, prevEnv, prevFiles, prevStdout, fn>>

\* ImageFont.truetype raises on a font file that exists but cannot be
\* loaded; nothing catches it
FontFail ==
    /\ pc = "font"
    /\ \E i \in 1..Len(FONT_PATHS) : fontExists[FONT_PATHS[i]]
    /\ events' = Append(events, <<JOBS[job].filename, "raise">>)
    /\ pc' = "crashed"
    /\ UNCHANGED <<run, fontExists, job, lines, font, canvas, final, files,
                   stdout, prevEnv, prevFiles, prevStdout, fn>>

\* char_width, lh, W, H and Image.new
NewCanvas ==
    /\ pc = "canvas"
    /\ LET rs == render_size(effective_font_size(JOBS[job].font_size))
       IN  canvas' = [W |-> canvas_W(max_chars(lines), char_width(font)),
                      H |-> canvas_H(Len(lines), line_height(rs)),
                      rows |-> <<>>]
    /\ pc' = "draw"
    /\ UNCHANGED <<run, fontExists, job, lines, font, final, files, stdout,
                   events, prevEnv, prevFiles, prevStdout, fn>>

\* the drawing loop over all lines
Draw ==
    /\ pc = "draw"
    /\ LET rs == render_size(effective_font_size(JOBS[job].font_size))
       IN  canvas' = [canvas EXCEPT
                        !.rows = draw_rows(lines, font, char_width(font),
                                           line_height(rs))]
    /\ events' = Append(events, <<JOBS[job].filename, "draw">>)
    /\ pc' = "resize"
    /\ UNCHANGED <<run, fontExists, job, lines, font, final, files, stdout,
                   prevEnv, prevFiles, prevStdout, fn>>

\* img.resize((final_w, final_h), LANCZOS)
Resize ==
    /\ pc = "resize"
    /\ final' = final_size(canvas.W, canvas.H)
    /\ events' = Append(events, <<JOBS[job].filename, "resize">>)
    /\ pc' = "save"
    /\ UNCHANGED <<run, fontExists, job, lines, font, canvas, files, stdout,
                   prevEnv, prevFiles, prevStdout, fn>>

\* img.save behind a cache check: an image whose file is already there is
\* neither written nor reported
Save_cached ==
    /\ pc = "save"
    /\ IF JOBS[job].filename \in DOMAIN files
          THEN /\ pc' = IF job = Len(JOBS) THEN "final" ELSE "gen"
               /\ job' = job + 1
               /\ lines' = <<>>
               /\ font' = [kind |-> "none", path |-> "", size |-> 0]
               /\ canvas' = [W |-> 0, H |-> 0, rows |-> <<>>]
               /\ final' = <<0, 0>>
               /\ UNCHANGED <<files, events>>
          ELSE /\ files' = [n \in DOMAIN files \cup {JOBS[job].filename} |->
                               IF n = JOBS[job].filename
                               THEN [size |-> final, rows |-> canvas.rows]
                               ELSE files[n]]
               /\ events' = Append(events, <<JOBS[job].filename, "save">>)
               /\ pc' = "print"
               /\ UNCHANGED <<job, lines, font, canvas, final>>
    /\ UNCHANGED <<run, fontExists, stdout, prevEnv, prevFiles, prevStdout, fn>>

\* what img.save writes: the resized drawing
saved_image == [size |-> final, rows |-> canvas.rows]

\* img.save(path, 'PNG'): creates the file or replaces its content
Save ==
    /\ pc = "save"
    /\ files' = [n \in DOMAIN files \cup {JOBS[job].filename} |->
                    IF n = JOBS[job].filename THEN saved_image ELSE files[n]]
    /\ events' = Append(events, <<JOBS[job].filename, "save">>)
    /\ pc' = "print"
    /\ UNCHANGED <<run, fontExists, job, lines, font, canvas, final, stdout,
                   prevEnv, prevFiles, prevStdout, fn>>

\* img.save's exception swallowed: the script goes on to the print
SaveFail_caught ==
    /\ pc = "save"
    /\ events' = Append(events, <<JOBS[job].filename, "raise">>)
    /\ pc' = "print"
    /\ UNCHANGED <<run, fontExists, job, lines, font, canvas, final, files,
                   stdout, prevEnv, prevFiles, prevStdout, fn>>

\* img.save raises (missing directory, unwritable path); nothing catches it
SaveFail ==
    /\ pc = "save"
    /\ events' = Append(events, <<JOBS[job].filename, "raise">>)
    /\ pc' = "crashed"
    /\ UNCHANGED <<run, fontExists, job, lines, font, canvas, final, files,
                   stdout, prevEnv, prevFiles, prevStdout, fn>>

\* print the per-image line and return to __main__, which calls the next
\* gen_* function
PrintReturn ==
    /\ pc = "print"
    /\ stdout' = Append(stdout, <<"ok", JOBS[job].filename, final[1], final[2]>>)
    /\ lines' = <<>>
    /\ font' = NoFont
    /\ canvas' = NoCanvas
    /\ final' = <<0, 0>>
    /\ job' = job + 1
    /\ pc' = IF job = Len(JOBS) THEN "final" ELSE "gen"
    /\ UNCHANGED <<run, fontExists, files, events, prevEnv, prevFiles,
                   prevStdout, fn>>

\* the closing print of __main__
PrintAll ==
    /\ pc = "final"
    /\ stdout' = Append(stdout, <<"all">>)
    /\ pc' = "exit"
    /\ UNCHANGED <<run, fontExists, job, lines, font, canvas, final, files,
                   events, prevEnv, prevFiles, prevStdout, fn>>

\* the script is run again: a new process, the asset directory as it was
\* left, the font files possibly installed or removed meanwhile
Rerun ==
    /\ pc \in {"exit", "crashed"}
    /\ run < MaxRuns
    /\ run' = run + 1
    /\ fontExists' \in Envs
    /\ prevEnv' = fontExists
    /\ prevFiles' = files
    /\ prevStdout' = stdout
    /\ pc' = "gen"
    /\ job' = 1
    /\ lines' = <<>>
    /\ font' = NoFont
    /\ canvas' = NoCanvas
    /\ final' = <<0, 0>>
    /\ stdout' = <<>>
    /\ events' = <<>>
    /\ UNCHANGED <<files, fn>>

Next ==
    \/ GenLayout
    \/ GetFont
    \/ FontFail
    \/ NewCanvas
    \/ Draw
    \/ Resize
    \/ Save
    \/ SaveFail
    \/ PrintReturn
    \/ PrintAll
    \/ Rerun

Spec == Init /\ [][Next]_vars

\* ------------------------------------------- the builders on their own
\* inputs for center_line: two segments of n characters in all, no spaces
fn_segments(n) ==
    << <<Repeat(88, n \div 2), WHITE>>, <<Repeat(81, n - n \div 2), YELLOW>> >>

FnInputs ==
    {[kind |-> "segments", segments |-> fn_segments(n)] : n \in 0..MaxTextLen}
    \cup {[kind |-> "text", text |-> Repeat(9608, n)] : n \in 0..MaxTextLen}
    \cup {[kind |-> "dims", font_size |-> fs, nlines |-> nl, max_chars |-> mc,
           char_width |-> cw] :
            fs \in 1..MaxFontSize, nl \in 1..MaxLines, mc \in 0..MaxChars,
            cw \in 1..MaxGlyph}

InitFn ==
    /\ run = 1
    /\ fontExists = [p \in {FONT_PATHS[i] : i \in 1..Len(FONT_PATHS)} |-> TRUE]
    /\ pc = "idle"
    /\ job = 1
    /\ lines = <<>>
    /\ font = NoFont
    /\ canvas = NoCanvas
    /\ final = <<0, 0>>
    /\ files = NoFiles
    /\ stdout = <<>>
    /\ events = <<>>
    /\ prevEnv = fontExists
    /\ prevFiles = NoFiles
    /\ prevStdout = <<>>
    /\ fnOp = ""
    /\ fnArg \in FnInputs
    /\ fnRes = <<>>

ApplyDashboardCenterLine ==
    /\ fnOp = ""
    /\ fnArg.kind = "segments"
    /\ fnRes' = dashboard_center_line(fnArg.segments)
    /\ fnOp' = "dashboard_center_line"
    /\ UNCHANGED <<fnArg, script>>

ApplyDashboardLogoLine ==
    /\ fnOp = ""
    /\ fnArg.kind = "text"
    /\ fnRes' = dashboard_logo_line(fnArg.text)
    /\ fnOp' = "dashboard_logo_line"
    /\ UNCHANGED <<fnArg, script>>

ApplyAlgoCenterLine ==
    /\ fnOp = ""
    /\ fnArg.kind = "segments"
    /\ fnRes' = algo_center_line(fnArg.segments)
    /\ fnOp' = "algo_center_line"
    /\ UNCHANGED <<fnArg, script>>

ApplyCopyCenterLine ==
    /\ fnOp = ""
    /\ fnArg.kind = "segments"
    /\ fnRes' = copy_center_line(fnArg.segments)
    /\ fnOp' = "copy_center_line"
    /\ UNCHANGED <<fnArg, script>>

ApplyImageSize ==
    /\ fnOp = ""
    /\ fnArg.kind = "dims"
    /\ fnRes' = image_size(fnArg.font_size, fnArg.nlines, fnArg.max_chars,
                           fnArg.char_width)
    /\ fnOp' = "image_size"
    /\ UNCHANGED <<fnArg, script>>

NextFn ==
    \/ ApplyDashboardCenterLine
    \/ ApplyDashboardLogoLine
    \/ ApplyAlgoCenterLine
    \/ ApplyCopyCenterLine
    \/ ApplyImageSize

SpecFn == InitFn /\ [][NextFn]_vars

\* ---------------------------------------------------------------- claims
LeftBorders == {B_TL, B_L, B_BL, B_V}
Separators == {S_V, B_T, B_B, B_X}

\* the right border that closes a left border
Closing(c) ==
    IF c = B_TL THEN B_TR
    ELSE IF c = B_L THEN B_R
    ELSE IF c = B_BL THEN B_BR
    ELSE B_V

\* the gen_* function in progress, "none" once the last has returned
CurGen == IF job \in 1..Len(JOBS) THEN JOBS[job].gen ELSE "none"

\* C1: every line of the dashboard, algo-trading and copy-trading panels
\* handed to the rasterizer is exactly 98 characters long, borders included,
\* and the six rows of the logo panel have one common length.
C1_LineWidths ==
    /\ CurGen \in {"gen_dashboard", "gen_algo", "gen_copy"} =>
          \A i \in 1..Len(lines) : Len(lines[i][1]) = 98
    /\ CurGen = "gen_logo" =>
          \A i, j \in 1..Len(lines) : Len(lines[i][1]) = Len(lines[j][1])

C1_Witness ==
    /\ pc = "font"
    /\ CurGen = "gen_copy"
    /\ Len(lines) = 33
    /\ Len(lines[16][1]) = 98

\* C2: in the three bordered panels column 0 of every line holds a left
\* border character and column 97 the matching right border character; in
\* the algo-trading and copy-trading panels every column separator sits at
\* column 49 = 1 + LEFT_W, and LEFT_W + 1 + RIGHT_W = W - 2.
C2_BorderColumns ==
    /\ CurGen \in {"gen_dashboard", "gen_algo", "gen_copy"} =>
          \A i \in 1..Len(lines) :
             /\ Len(lines[i][1]) >= 98
             /\ lines[i][1][1] \in LeftBorders
             /\ lines[i][1][98] = Closing(lines[i][1][1])
    /\ CurGen \in {"gen_algo", "gen_copy"} =>
          \A i \in 1..Len(lines) :
             \A c \in 1..Len(lines[i][1]) :
                lines[i][1][c] \in Separators => c = 50
    /\ 1 + algo_LEFT_W = 49
    /\ 1 + copy_LEFT_W = 49
    /\ algo_LEFT_W + 1 + algo_RIGHT_W = algo_W - 2
    /\ copy_LEFT_W + 1 + copy_RIGHT_W = copy_W - 2

C2_Witness ==
    /\ pc = "font"
    /\ CurGen = "gen_algo"
    /\ lines[3][1][50] = B_T
    /\ lines[4][1][50] = S_V
    /\ lines[5][1][50] = B_X
    /\ lines[11][1][50] = B_B
    /\ lines[1][1][1] = B_TL
    /\ lines[1][1][98] = B_TR

\* the steps of one image, and of a whole run, as the claim orders them
StepsOf(name) ==
    << <<name, "layout">>, <<name, "draw">>, <<name, "resize">>, <<name, "save">> >>

ExpectedEvents ==
    StepsOf("logo.png") \o StepsOf("dashboard.png")
    \o StepsOf("algo-trading.png") \o StepsOf("copy-trading.png")

IsPrefix(s, t) == Len(s) <= Len(t) /\ \A i \in 1..Len(s) : s[i] = t[i]

Raised == \E i \in 1..Len(events) : events[i][2] = "raise"

\* the events before a raise, if any
Completed == SelectSeq(events, LAMBDA e : e[2] # "raise")

\* C3: the steps of a run are layout, draw, resize, save of logo.png, then
\* of dashboard.png, algo-trading.png and copy-trading.png, each once and in
\* that order; a run without failure ends with exactly these sixteen steps,
\* and the closing message is printed only after all four saves.
C3_DriverOrder ==
    /\ IsPrefix(Completed, ExpectedEvents)
    /\ pc = "exit" => events = ExpectedEvents
    /\ (\E i \in 1..Len(stdout) : stdout[i] = <<"all">>) =>
          /\ events = ExpectedEvents
          /\ stdout[Len(stdout)] = <<"all">>
          /\ [i \in 1..(Len(stdout) - 1) |-> stdout[i][2]] =
                <<"logo.png", "dashboard.png", "algo-trading.png",
                  "copy-trading.png">>

C3_Witness ==
    /\ pc = "exit"
    /\ Len(events) = 16
    /\ events[8] = <<"dashboard.png", "save">>
    /\ events[9] = <<"algo-trading.png", "layout">>
    /\ Len(stdout) = 5

\* the file names whose per-image line has been printed
Printed == {stdout[i][2] : i \in {k \in 1..Len(stdout) : stdout[k][1] = "ok"}}

\* C4: once a step has raised, the script is terminated at that step: the
\* raise is the last step taken, the failed image's line and the closing
\* message are not printed, the failed image is not written by this step,
\* and every image saved earlier in the run is still in the asset directory
\* with the size that was printed for it.
C4_FailureTerminates ==
    Raised =>
       /\ pc = "crashed"
       /\ events[Len(events)][2] = "raise"
       /\ \A i \in 1..(Len(events) - 1) : events[i][2] # "raise"
       /\ events[Len(events)][1] \notin Printed
       /\ \A i \in 1..Len(stdout) : stdout[i] # <<"all">>
       /\ \A i \in 1..Len(events) :
             events[i][2] = "save" =>
                /\ events[i][1] \in DOMAIN files
                /\ events[i][1] \in Printed
                /\ \E k \in 1..Len(stdout) :
                      stdout[k] = <<"ok", events[i][1],
                                    files[events[i][1]].size[1],
                                    files[events[i][1]].size[2]>>
       /\ \A i \in 1..Len(events) :
             events[i][1] = events[Len(events)][1] => events[i][2] # "save"

C4_Witness ==
    /\ pc = "crashed"
    /\ events[Len(events)] = <<"algo-trading.png", "raise">>
    /\ events[Len(events) - 1] = <<"algo-trading.png", "resize">>
    /\ DOMAIN files = {"logo.png", "dashboard.png"}
    /\ Len(stdout) = 2

\* C5: get_font probes DejaVuSansMono.ttf first and DejaVuSansMono-Bold.ttf
\* second and returns the font of the first that exists; the second is used
\* only when the first does not exist, and the default font is returned if
\* and only if neither exists.
C5_FontProbeOrder ==
    font.kind # "none" =>
       LET regular == "/usr/share/fonts/truetype/dejavu/DejaVuSansMono.ttf"
           bold == "/usr/share/fonts/truetype/dejavu/DejaVuSansMono-Bold.ttf"
       IN  /\ fontExists[regular] =>
                font.kind = "truetype" /\ font.path = regular
           /\ (~fontExists[regular] /\ fontExists[bold]) =>
                font.kind = "truetype" /\ font.path = bold
           /\ font.path = bold => ~fontExists[regular]
           /\ font.kind = "default" <=>
                (~fontExists[regular] /\ ~fontExists[bold])

C5_Witness ==
    /\ pc = "canvas"
    /\ ~fontExists["/usr/share/fonts/truetype/dejavu/DejaVuSansMono.ttf"]
    /\ fontExists["/usr/share/fonts/truetype/dejavu/DejaVuSansMono-Bold.ttf"]
    /\ font.path = "/usr/share/fonts/truetype/dejavu/DejaVuSansMono-Bold.ttf"

\* C6: for every image and every outcome of font selection, the default
\* font included, the font the rasterizer draws with has the supersampled
\* size font_size * SCALE: 56 for logo.png, 48 for the other three.
C6_FontAtRenderSize ==
    font.kind # "none" =>
       font.size = (IF JOBS[job].filename = "logo.png" THEN 28 ELSE 24) * 2

\* the per-image lines of an invocation's output
OkLines(out) == SelectSeq(out, LAMBDA l : l[1] = "ok")

C9_ColorMapParallel ==
    /\ \A i \in 1..Len(lines) : Len(lines[i][2]) = Len(lines[i][1])
    /\ \A r \in 1..Len(canvas.rows) :
          /\ canvas.rows[r].text = lines[r][1]
          /\ canvas.rows[r].fill = lines[r][2]

C9_Witness ==
    /\ pc = "resize"
    /\ CurGen = "gen_algo"
    /\ Len(canvas.rows) = 28
    /\ Len(lines[12][2]) = 98
    /\ canvas.rows[12].fill[12] = CYAN
    /\ canvas.rows[12].fill[13] = CYAN
    /\ canvas.rows[12].fill[17] = WHITE

\* C8: the saved image is (max_chars * char_width + 2 * 40 * SCALE) div SCALE
\* wide and (len(lines) * lh + 2 * 30 * SCALE) div SCALE high, with
\* lh = floor(1.3 * font_size * SCALE); the width does not decrease with the
\* longest line's length, nor the height with the line count or the font
\* size.
C8_ImageSize ==
    fnOp = "image_size" =>
       LET fs == fnArg.font_size
           nl == fnArg.nlines
           mc == fnArg.max_chars
           cw == fnArg.char_width
           lh == (13 * (fs * 2)) \div 10
       IN  /\ fnRes[1] = (mc * cw + 2 * 40 * 2) \div 2
           /\ fnRes[2] = (nl * lh + 2 * 30 * 2) \div 2
           /\ \A mc2 \in 0..mc : image_size(fs, nl, mc2, cw)[1] <= fnRes[1]
           /\ \A nl2 \in 1..nl : image_size(fs, nl2, mc, cw)[2] <= fnRes[2]
           /\ \A fs2 \in 1..fs : image_size(fs2, nl, mc, cw)[2] <= fnRes[2]

C8_Witness ==
    /\ fnOp = "image_size"
    /\ fnArg.font_size = 24
    /\ fnArg.nlines = 3
    /\ fnArg.max_chars = 3
    /\ fnArg.char_width = 3
    /\ fnRes = <<84, 153>>

\* the text handed to the builder that was applied
FnText ==
    IF fnArg.kind = "segments"
    THEN fnArg.segments[1][1] \o fnArg.segments[2][1]
    ELSE fnArg.text

\* C10: for a text of at most 96 characters, center_line and logo_line
\* return the 98-character line that is the left border, left_pad spaces,
\* the text, right_pad spaces and the right border, with
\* left_pad = floor((96 - len) / 2), left_pad + len + right_pad = 96 and
\* 0 <= right_pad - left_pad <= 1.
C10_Centering ==
    (fnOp \in {"dashboard_center_line", "dashboard_logo_line",
               "algo_center_line", "copy_center_line"}
       /\ Len(FnText) <= 96) =>
       LET len == Len(FnText)
           left_pad == (96 - len) \div 2
           right_pad == Len(fnRes[1]) - 2 - len - left_pad
       IN  /\ Len(fnRes[1]) = 98
           /\ left_pad + len + right_pad = 96
           /\ 0 <= right_pad - left_pad
           /\ right_pad - left_pad <= 1
           /\ fnRes[1][1] = B_V
           /\ fnRes[1][98] = B_V
           /\ \A c \in 2..(1 + left_pad) : fnRes[1][c] = SP
           /\ \A c \in 1..len : fnRes[1][1 + left_pad + c] = FnText[c]
           /\ \A c \in (2 + left_pad + len)..97 : fnRes[1][c] = SP

C10_Witness ==
    /\ fnOp = "algo_center_line"
    /\ Len(FnText) = 33
    /\ fnRes[1][32] = SP
    /\ fnRes[1][33] = 88
    /\ fnRes[1][65] = 81
    /\ fnRes[1][66] = SP
    /\ Len(fnRes[1]) = 98

\* the character at column 49 of a line, 0 for a line too short to have one
Col49(line) == IF Len(line[1]) >= 50 THEN line[1][50] ELSE 0

\* C11: in the algo-trading and copy-trading panels every two-column row
\* (a separator bar at column 49) has a tee-down, a cross or a bar at
\* column 49 of the line right above it and a tee-up, a cross or a bar at
\* column 49 of the line right below it; every tee-down is right above a
\* two-column row, every tee-up right below one, and every cross right
\* between two of them.
C11_SeparatorsConsistent ==
    CurGen \in {"gen_algo", "gen_copy"} =>
       \A i \in 1..Len(lines) :
          /\ Col49(lines[i]) = S_V =>
                /\ i > 1 /\ Col49(lines[i - 1]) \in {B_T, B_X, S_V}
                /\ i < Len(lines) /\ Col49(lines[i + 1]) \in {B_B, B_X, S_V}
          /\ Col49(lines[i]) = B_T =>
                i < Len(lines) /\ Col49(lines[i + 1]) = S_V
          /\ Col49(lines[i]) = B_B =>
                i > 1 /\ Col49(lines[i - 1]) = S_V
          /\ Col49(lines[i]) = B_X =>
                /\ i > 1 /\ Col49(lines[i - 1]) = S_V
                /\ i < Len(lines) /\ Col49(lines[i + 1]) = S_V

=============================================================================
